---- MODULE Spec2Model ----
(***************************************************************************)
(* A model of the scalar autograd engine of mlp.ipynb (class Tensor) and   *)
(* of its collaborators (Neuron, Layer, MLP, criterion, Optimizer and the  *)
(* training loop).                                                         *)
(*                                                                         *)
(* Numbers.  A Python number is modelled as an exact rational <<n, d>>     *)
(* with d >= 1 in lowest terms; <<0, 0>> stands for a value of Python type *)
(* complex (what pow returns for a negative base and a non-integral        *)
(* exponent).  A power with a non-integral exponent is drawn only where    *)
(* its result is rational (the base is a square), so that a value of the   *)
(* model is the exact value of the Python expression; the one exception is *)
(* the value a Neuron squashes, which is rounded to a quarter (Logistic).  *)
(*                                                                         *)
(* Objects.  The Tensor objects alive in the program are the elements of   *)
(* the sequence nodes; a Tensor is its index.  A closure _backward is the  *)
(* triple (operator, self, other/exponent) it captured.                    *)
(***************************************************************************)
EXTENDS Integers, Sequences, FiniteSets, TLC

VARIABLES
    nodes,      \* the Tensor objects, in order of construction
    call,       \* the operation last requested: [op, a, b]
    err,        \* the exception the last operation raised, "" when none
    pc,         \* engine: "idle", or "walk" inside backward()'s loop over
                \* reversed(topo_sort); network: the statement to run next
    root,       \* self of the running (or last) backward() call, 0 before any
    topo_sort,  \* backward()'s local list topo_sort
    i,          \* iterations of the loop over reversed(topo_sort) made so far
    invoked,    \* the nodes whose _backward the running (or last) call has invoked, in order
    calls,      \* number of backward() calls begun
    hist,       \* the grad of every node as each backward() call returned or raised
    layers,     \* model.layers: per layer its neurons [weights, bias], Tensors
    X,          \* the examples
    Y,          \* the targets
    fwd_x,      \* MLP.forward's x: a list of operands or a single Tensor
    layer,      \* number of layers MLP.forward has applied
    y_hats,     \* the training loop's y_hats
    loss,       \* the training loop's loss, 0 before the first criterion
    epoch,      \* the training loop's i
    log         \* the steps of the loop made in this epoch

engine == <<call, root, topo_sort, i, invoked, calls, hist>>
network == <<layers, X, Y, fwd_x, layer, y_hats, loss, epoch, log>>
vars == <<nodes, err, pc, engine, network>>

----------------------------------------------------------------------------
(* Bounds of the model *)

MaxNodes == 4        \* Tensor objects of an expression of any operations
MaxExprNodes == 5    \* Tensor objects of an expression of + and *
MaxExprOps == 2      \* operations of an expression of + and *
MaxOpNodes == 3      \* Tensor objects when single operations are exercised
MaxCalls == 2        \* backward() calls on an expression
MaxMagnitude == 100  \* numerator and denominator of a node's value

LeafValues == {-3, 0, 2}
ExprValues == {-3, 2, 10}
Scalars == {0, 2}
\* exponents handed to **: 0, 2 and 1/2
Exponents == {<<0, 1>>, <<2, 1>>, <<1, 2>>}

----------------------------------------------------------------------------
(* Exact arithmetic on Python numbers *)

Abs(x) == IF x < 0 THEN -x ELSE x

RECURSIVE GCD(_, _)
GCD(a, b) == IF b = 0 THEN a ELSE GCD(b, a % b)

ComplexValue == <<0, 0>>

IsComplex(x) == x[2] = 0

\* the rational n/d (d # 0) in lowest terms with a positive denominator
Rat(n, d) ==
    LET g == GCD(Abs(n), Abs(d))
        s == IF d < 0 THEN -1 ELSE 1
    IN  <<(s * n) \div g, Abs(d) \div g>>

Num(n) == <<n, 1>>

IsZero(x) == x[2] # 0 /\ x[1] = 0

IsNegative(x) == x[2] # 0 /\ x[1] < 0

IsIntegral(x) == x[2] = 1

\* x + y
PyAdd(x, y) ==
    IF IsComplex(x) \/ IsComplex(y) THEN ComplexValue
    ELSE Rat(x[1] * y[2] + y[1] * x[2], x[2] * y[2])

\* x * y
PyMul(x, y) ==
    IF IsComplex(x) \/ IsComplex(y) THEN ComplexValue
    ELSE Rat(x[1] * y[1], x[2] * y[2])

\* -x
PyNeg(x) == IF IsComplex(x) THEN ComplexValue ELSE <<-x[1], x[2]>>

\* x / y for y # 0
PyDiv(x, y) ==
    IF IsComplex(x) \/ IsComplex(y) THEN ComplexValue
    ELSE Rat(x[1] * y[2], x[2] * y[1])

RECURSIVE IntPow(_, _)
IntPow(x, k) == IF k = 0 THEN Num(1) ELSE PyMul(x, IntPow(x, k - 1))

IsSquare(n) == n >= 0 /\ \E r \in 0..n : r * r = n

ISqrt(n) == CHOOSE r \in 0..n : r * r = n

\* pow(x, p) raises ZeroDivisionError: "0.0 cannot be raised to a negative power"
PowRaises(x, p) == IsZero(x) /\ IsNegative(p)

\* pow(x, p) is a value the model represents exactly
PowExact(x, p) ==
    \/ IsComplex(x)
    \/ IsIntegral(p)
    \/ IsNegative(x)
    \/ IsSquare(x[1]) /\ IsSquare(x[2])

\* pow(x, p) where it does not raise; p is integral or an odd multiple of 1/2
PyPow(x, p) ==
    IF IsComplex(x) THEN ComplexValue
    ELSE IF IsIntegral(p) THEN
        IF p[1] >= 0 THEN IntPow(x, p[1])
        ELSE PyDiv(Num(1), IntPow(x, -p[1]))
    ELSE IF IsNegative(x) THEN ComplexValue
    ELSE LET s == <<ISqrt(x[1]), ISqrt(x[2])>>
         IN  IF p[1] >= 0 THEN IntPow(s, p[1])
             ELSE PyDiv(Num(1), IntPow(s, -p[1]))

\* the model keeps a value when it is complex or its numerator and denominator are small
Small(x) == Abs(x[1]) <= MaxMagnitude /\ x[2] <= MaxMagnitude

----------------------------------------------------------------------------
(* Tensor objects *)

\* F applied to the value of v: a local variable assigned once and read by F
Bind(v, F(_)) == CHOOSE y \in {F(r) : r \in {v}} : TRUE

Ids(h) == 1..Len(h)

\* Tensor.__init__: children is set(children), a set of objects (hashed by identity)
Tensor(value, children, operator, self, other, exponent) ==
    [value |-> value, children |-> children, operator |-> operator, grad |-> Num(0),
     self |-> self, other |-> other, exponent |-> exponent]

Leaf(value) == Tensor(value, {}, "", 0, 0, Num(0))

\* an operand is a Tensor or a raw scalar
Node(id) == [k |-> "node", id |-> id, v |-> Num(0)]
Raw(v) == [k |-> "raw", id |-> 0, v |-> v]

IsTensor(x) == x.k = "node"

NodeOperands == {Node(id) : id \in Ids(nodes)}
RawOperands == {Raw(Num(v)) : v \in Scalars}
Operands == NodeOperands \cup RawOperands
NonZeroOperands == {x \in NodeOperands : ~IsZero(nodes[x.id].value)}

\* the value an operand holds
ValueOf(h, x) == IF IsTensor(x) THEN h[x.id].value ELSE x.v

IsReal(h, x) == ~IsComplex(ValueOf(h, x))

\* other = other if isinstance(other, Tensor) else Tensor(other)
Wrap(h, other) == IF IsTensor(other) THEN h ELSE Append(h, Leaf(other.v))
WrapId(h, other) == IF IsTensor(other) THEN other.id ELSE Len(h) + 1

----------------------------------------------------------------------------
(* The methods of Tensor.  Each yields the objects after the call and the  *)
(* exception it raised ("" when it returned); a call that raises leaves    *)
(* behind no object it made: the Tensor wrapping a raw scalar is local to  *)
(* the call.                                                               *)

Return(h) == [nodes |-> h, err |-> ""]
Raise(h, e) == [nodes |-> h, err |-> e]

\* Tensor.__mul__(self, other)
Tensor_mul(h, self, other) ==
    LET h1 == Wrap(h, other)
        o == WrapId(h, other)
        out == Tensor(PyMul(h1[self].value, h1[o].value), {self, o},
                      "*", self, o, Num(0))
    IN  Return(Append(h1, out))

\* Tensor.__add__(self, other)
Tensor_add(h, self, other) ==
    LET h1 == Wrap(h, other)
        o == WrapId(h, other)
        out == Tensor(PyAdd(h1[self].value, h1[o].value), {self, o},
                      "+", self, o, Num(0))
    IN  Return(Append(h1, out))

\* Tensor.__radd__(self, other): other + self with other not a Tensor
Tensor_radd(h, self, other) == Tensor_add(h, self, other)

\* Tensor.__pow__(self, other): other is used as a number, never wrapped
Tensor_pow(h, self, other) ==
    IF IsTensor(other) THEN Raise(h, "TypeError")
    ELSE IF PowRaises(h[self].value, other.v) THEN Raise(h, "ZeroDivisionError")
    ELSE Return(Append(h, Tensor(PyPow(h[self].value, other.v), {self},
                                 "pow", self, 0, other.v)))

\* Tensor.__sub__(self, other): self + (-other); Tensor defines no __neg__
Tensor_sub(h, self, other) ==
    IF IsTensor(other) THEN Raise(h, "TypeError")
    ELSE Tensor_add(h, self, Raw(PyNeg(other.v)))

\* a __truediv__ that makes out before it looks at the divisor
Tensor_truediv_late(h, self, other) ==
    LET h1 == Wrap(h, other)
        o == WrapId(h, other)
    IN  IF IsZero(h1[o].value)
        THEN Raise(Append(h1, Tensor(Num(0), {self, o}, "/", self, o, Num(0))),
                   "ValueError")
        ELSE Return(Append(h1, Tensor(PyDiv(h1[self].value, h1[o].value),
                                      {self, o}, "/", self, o, Num(0))))

\* Tensor.__truediv__(self, other)
Tensor_truediv(h, self, other) ==
    LET h1 == Wrap(h, other)
        o == WrapId(h, other)
    IN  IF IsZero(h1[o].value) THEN Raise(h, "ValueError")
        ELSE Return(Append(h1, Tensor(PyDiv(h1[self].value, h1[o].value),
                                      {self, o}, "/", self, o, Num(0))))

(* The expressions a + b, a * b, a - b, a / b, a ** b as Python dispatches *)
(* them: to the method of the left operand when it is a Tensor, else to    *)
(* the reflected method of the right one; Tensor defines only __radd__.    *)

add(h, a, b) ==
    IF IsTensor(a) THEN Tensor_add(h, a.id, b) ELSE Tensor_radd(h, b.id, a)

multiply(h, a, b) ==
    IF IsTensor(a) THEN Tensor_mul(h, a.id, b) ELSE Raise(h, "TypeError")

subtract(h, a, b) ==
    IF IsTensor(a) THEN Tensor_sub(h, a.id, b) ELSE Raise(h, "TypeError")

divide(h, a, b) ==
    IF IsTensor(a) THEN Tensor_truediv(h, a.id, b) ELSE Raise(h, "TypeError")

power(h, a, b) ==
    IF IsTensor(a) THEN Tensor_pow(h, a.id, b) ELSE Raise(h, "TypeError")

----------------------------------------------------------------------------
(* Tensor.backward *)

(* The order in which "for child in v.children" iterates the set is fixed *)
(* by the hashes of the objects and seen only when backward() iterates:   *)
(* flips[v] says whether a two-element set yields other before self.      *)
Iteration(h, flips, v) ==
    IF h[v].children = {} THEN <<>>
    ELSE IF Cardinality(h[v].children) = 1 THEN <<h[v].self>>
    ELSE IF flips[v] THEN <<h[v].other, h[v].self>>
    ELSE <<h[v].self, h[v].other>>

RECURSIVE build_topo(_, _, _, _)
RECURSIVE visit_children(_, _, _, _)

\* build_topo(v) on the state st = [visited, topo_sort]
build_topo(h, flips, v, st) ==
    IF v \in st.visited THEN st
    ELSE LET st1 == [st EXCEPT !.visited = @ \cup {v}]
             st2 == visit_children(h, flips, Iteration(h, flips, v), st1)
         IN  [st2 EXCEPT !.topo_sort = Append(@, v)]

\* for child in v.children: build_topo(child)
visit_children(h, flips, cs, st) ==
    IF cs = <<>> THEN st
    ELSE Bind(build_topo(h, flips, Head(cs), st),
              LAMBDA st1 : visit_children(h, flips, Tail(cs), st1))

\* n.grad = x where the code accumulates
OverwriteGrad(h, n, x) == [h EXCEPT ![n].grad = x]

\* n.grad += x
AddGrad(h, n, x) == [h EXCEPT ![n].grad = PyAdd(@, x)]

\* n.grad = x
SetGrad(h, n, x) == [h EXCEPT ![n].grad = x]

\* a closure of __mul__ that gives each operand its own value
mul_backward_own(h, out) ==
    LET self == h[out].self
        other == h[out].other
        h1 == [h EXCEPT ![self].grad = PyAdd(@, PyMul(h[self].value, h[out].grad))]
    IN  Return([h1 EXCEPT ![other].grad = PyAdd(@, PyMul(h1[other].value, h1[out].grad))])

\* __mul__'s closure backward of out
mul_backward(h, out) ==
    LET self == h[out].self
        other == h[out].other
        h1 == AddGrad(h, self, PyMul(h[other].value, h[out].grad))
    IN  Return(AddGrad(h1, other, PyMul(h1[self].value, h1[out].grad)))

\* __add__'s closure backward of out
add_backward(h, out) ==
    LET self == h[out].self
        other == h[out].other
        h1 == AddGrad(h, self, PyMul(Num(1), h[out].grad))
    IN  Return(AddGrad(h1, other, PyMul(Num(1), h1[out].grad)))

\* __pow__'s closure backward of out
pow_backward(h, out) ==
    LET self == h[out].self
        other == h[out].exponent
        less == PyAdd(other, Num(-1))
    IN  IF PowRaises(h[self].value, less) THEN Raise(h, "ZeroDivisionError")
        ELSE Return(SetGrad(h, self,
                 PyMul(PyMul(other, PyPow(h[self].value, less)), h[out].grad)))

\* __truediv__'s closure backward of out
truediv_backward(h, out) ==
    LET self == h[out].self
        other == h[out].other
    IN  IF IsZero(h[other].value) THEN Raise(h, "ZeroDivisionError")
        ELSE LET h1 == AddGrad(h, self,
                           PyMul(PyDiv(Num(1), h[other].value), h[out].grad))
             IN  Return(AddGrad(h1, other,
                     PyMul(PyDiv(PyNeg(h1[self].value), PyPow(h1[other].value, Num(2))),
                           h1[out].grad)))

\* v._backward()
backward_fn(h, v) ==
    CASE h[v].operator = "*" -> mul_backward(h, v)
      [] h[v].operator = "+" -> add_backward(h, v)
      [] h[v].operator = "pow" -> pow_backward(h, v)
      [] h[v].operator = "/" -> truediv_backward(h, v)
      [] OTHER -> Return(h)

\* topo_sort as it is, not reversed
unreversed(s) == s

\* reversed(topo_sort)
reversed(s) == [k \in 1..Len(s) |-> s[Len(s) + 1 - k]]

Grads(h) == [n \in Ids(h) |-> h[n].grad]

----------------------------------------------------------------------------
(* The state machine of the engine: an expression is built operation by    *)
(* operation, then backward() is called on a node of it.                   *)

NoCall == [op |-> "", a |-> Raw(Num(0)), b |-> Raw(Num(0))]

\* no backward() call of the engine's state machine has been made
NoBackward ==
    /\ call = NoCall
    /\ root = 0
    /\ topo_sort = <<>>
    /\ i = 0
    /\ invoked = <<>>
    /\ calls = 0
    /\ hist = <<>>

\* no network exists
NoNetwork ==
    /\ layers = <<>>
    /\ X = <<>>
    /\ Y = <<>>
    /\ fwd_x = [k |-> "list", items |-> <<>>, id |-> 0]
    /\ layer = 0
    /\ y_hats = <<>>
    /\ loss = 0
    /\ epoch = 0
    /\ log = <<>>

Init ==
    /\ nodes = <<>>
    /\ err = ""
    /\ pc = "idle"
    /\ NoBackward
    /\ NoNetwork

\* the operation op on a and b ends as res says; cap bounds the objects of the model
Apply(op, a, b, res, cap) ==
    /\ pc = "idle"
    /\ calls = 0
    /\ Len(res.nodes) <= cap
    /\ \A n \in Ids(res.nodes) : Small(res.nodes[n].value)
    /\ nodes' = res.nodes
    /\ err' = res.err
    /\ call' = [op |-> op, a |-> a, b |-> b]
    /\ UNCHANGED <<pc, root, topo_sort, i, invoked, calls, hist, network>>

\* the operand pairs of a binary operation of the engine: at least one is a Tensor
Binary(a, b) == ~(~IsTensor(a) /\ ~IsTensor(b)) /\ IsReal(nodes, a) /\ IsReal(nodes, b)

\* Tensor(v)
MakeLeaf(v, cap) ==
    Apply("leaf", Raw(Num(v)), Raw(Num(0)), Return(Append(nodes, Leaf(Num(v)))), cap)

\* a + b
Add(a, b, cap) == Binary(a, b) /\ Apply("add", a, b, add(nodes, a, b), cap)

\* a * b
Multiply(a, b, cap) == Binary(a, b) /\ Apply("multiply", a, b, multiply(nodes, a, b), cap)

\* a - b
Subtract(a, b, cap) == Binary(a, b) /\ Apply("subtract", a, b, subtract(nodes, a, b), cap)

\* a / b
Divide(a, b, cap) == Binary(a, b) /\ Apply("divide", a, b, divide(nodes, a, b), cap)

\* a ** p
Power(a, p, cap) ==
    /\ IsReal(nodes, a)
    /\ PowExact(ValueOf(nodes, a), p)
    /\ Apply("power", a, Raw(p), power(nodes, a, Raw(p)), cap)

RECURSIVE Reach(_, _)
\* the nodes reachable from v through children
Reach(h, v) == {v} \cup UNION {Reach(h, c) : c \in h[v].children}

\* the iteration orders of the children sets that build_topo(self) iterates:
\* only a two-element set has two
Flips(self) ==
    LET two == {n \in Reach(nodes, self) : Cardinality(nodes[n].children) = 2}
    IN  {[n \in Ids(nodes) |-> n \in S] : S \in SUBSET two}

\* backward() is called on the result of the expression, the node made last
Roots == IF nodes = <<>> THEN {} ELSE {Len(nodes)}

\* backward(self) up to the loop: build_topo(self); self.grad = 1.  A repeated
\* call is a call on the same root, whose sets iterate as they did before.
BackwardBegin(self, flips, limit) ==
    /\ pc = "idle"
    /\ calls < limit
    /\ LET topo == build_topo(nodes, flips, self,
                              [visited |-> {}, topo_sort |-> <<>>]).topo_sort
       IN  /\ calls > 0 => self = root /\ topo = topo_sort
           /\ topo_sort' = topo
    /\ i' = 0
    /\ nodes' = SetGrad(nodes, self, Num(1))
    /\ root' = self
    /\ pc' = "walk"
    /\ invoked' = <<>>
    /\ calls' = calls + 1
    /\ call' = [op |-> "backward", a |-> Node(self), b |-> Raw(Num(0))]
    /\ err' = ""
    /\ UNCHANGED <<hist, network>>

\* one iteration of: for v in reversed(topo_sort): v._backward(); the call ends
\* with the last iteration, or with the exception a _backward raises
BackwardStep ==
    /\ pc = "walk"
    /\ LET v == reversed(topo_sort)[i + 1]
           res == backward_fn(nodes, v)
           ends == res.err # "" \/ i + 1 = Len(topo_sort)
       IN  /\ nodes' = res.nodes
           /\ err' = res.err
           /\ invoked' = Append(invoked, v)
           /\ i' = i + 1
           /\ pc' = IF ends THEN "idle" ELSE "walk"
           /\ hist' = IF ends THEN Append(hist, Grads(res.nodes)) ELSE hist
    /\ UNCHANGED <<call, root, topo_sort, calls, network>>

\* expressions of every operation on Tensors, and backward()
Next ==
    \/ \E v \in LeafValues : MakeLeaf(v, MaxNodes)
    \/ \E a \in NodeOperands, b \in NodeOperands : Add(a, b, MaxNodes)
    \/ \E a \in NodeOperands, b \in NodeOperands : Multiply(a, b, MaxNodes)
    \/ \E a \in NodeOperands, b \in NonZeroOperands : Divide(a, b, MaxNodes)
    \/ \E a \in NodeOperands, p \in Exponents : Power(a, p, MaxNodes)
    \/ \E self \in Roots : \E flips \in Flips(self) : BackwardBegin(self, flips, MaxCalls)
    \/ BackwardStep

Spec == Init /\ [][Next]_vars

\* the leaves of an expression of + and * are made first, then its operations
OnlyLeaves == \A n \in Ids(nodes) : nodes[n].children = {}
FewOps == Cardinality({n \in Ids(nodes) : nodes[n].children # {}}) < MaxExprOps

\* expressions of + and * on Tensors, and one backward()
NextExpr ==
    \/ \E v \in ExprValues : OnlyLeaves /\ MakeLeaf(v, MaxExprNodes)
    \/ \E a \in NodeOperands, b \in NodeOperands : FewOps /\ Add(a, b, MaxExprNodes)
    \/ \E a \in NodeOperands, b \in NodeOperands : FewOps /\ Multiply(a, b, MaxExprNodes)
    \/ \E self \in Roots : \E flips \in Flips(self) : BackwardBegin(self, flips, 1)
    \/ BackwardStep

SpecExpr == Init /\ [][NextExpr]_vars

\* single operations on Tensors and raw scalars
NextOps ==
    \/ \E v \in LeafValues : MakeLeaf(v, MaxOpNodes)
    \/ \E a \in Operands, b \in Operands : Add(a, b, MaxOpNodes)
    \/ \E a \in Operands, b \in Operands : Multiply(a, b, MaxOpNodes)
    \/ \E a \in Operands, b \in Operands : Subtract(a, b, MaxOpNodes)
    \/ \E a \in Operands, b \in Operands : Divide(a, b, MaxOpNodes)
    \/ \E a \in NodeOperands, p \in Exponents : Power(a, p, MaxOpNodes)

SpecOps == Init /\ [][NextOps]_vars

----------------------------------------------------------------------------
(* Neuron, Layer, MLP *)

MaxInputs == 2        \* input_size
MaxLayers == 3        \* len(layer_sizes) of a network that is only run forward
MaxWidth == 2         \* an element of layer_sizes
MaxTrainInputs == 1   \* input_size of a network that is trained
MaxTrainLayers == 1   \* len(layer_sizes) of a network that is trained
MaxExamples == 2      \* len(X)

\* the features of an example and the targets
InputValues == {-1, 2}
Targets == {0, 1}

\* a list of operands, or a single Tensor
List(items) == [k |-> "list", items |-> items, id |-> 0]
Single(id) == [k |-> "tensor", items |-> <<>>, id |-> id]

Min(a, b) == IF a < b THEN a ELSE b

Less(a, b) == a[1] * b[2] < b[1] * a[2]

\* 1 / (1 + math.exp(v)), to the nearest quarter: it is at least 7/8 up to
\* v = -ln 7, at least 5/8 up to -ln(5/3), at least 3/8 up to ln(5/3), at least
\* 1/8 up to ln 7; ln(5/3) = 0.51 and ln 7 = 1.95 to two decimals
Logistic(v) ==
    IF Less(v, Rat(-195, 100)) THEN Num(1)
    ELSE IF Less(v, Rat(-51, 100)) THEN Rat(3, 4)
    ELSE IF Less(v, Rat(51, 100)) THEN Rat(1, 2)
    ELSE IF Less(v, Rat(195, 100)) THEN Rat(1, 4)
    ELSE Num(0)

\* Neuron.__init__(input_size) on the objects h: the weights, then the bias
Neuron(h, input_size) ==
    [nodes |-> h \o [j \in 1..input_size + 1 |-> Leaf(Num(1))],
     neuron |-> [weights |-> [j \in 1..input_size |-> Len(h) + j],
                 bias |-> Len(h) + input_size + 1]]

RECURSIVE Layer(_, _, _)
\* Layer.__init__(input_size, output_size): [Neuron(input_size) for _ in range(output_size)]
Layer(h, input_size, output_size) ==
    IF output_size = 0 THEN [nodes |-> h, neurons |-> <<>>]
    ELSE Bind(Layer(h, input_size, output_size - 1), LAMBDA before :
         Bind(Neuron(before.nodes, input_size), LAMBDA made :
              [nodes |-> made.nodes, neurons |-> Append(before.neurons, made.neuron)]))

RECURSIVE MLP(_, _, _)
\* MLP.__init__(input_size, layer_sizes): layer k takes layers_total[k - 1] inputs
MLP(h, input_size, layer_sizes) ==
    IF layer_sizes = <<>> THEN [nodes |-> h, layers |-> <<>>]
    ELSE LET k == Len(layer_sizes)
         IN  Bind(MLP(h, input_size, SubSeq(layer_sizes, 1, k - 1)), LAMBDA before :
             Bind(Layer(before.nodes, IF k = 1 THEN input_size ELSE layer_sizes[k - 1],
                        layer_sizes[k]), LAMBDA made :
                  [nodes |-> made.nodes, layers |-> Append(before.layers, made.neurons)]))

RECURSIVE Products(_, _, _, _)
\* [w_i * x_i for w_i, x_i in zip(self.weights, x)], its first j elements
Products(h, weights, items, j) ==
    IF j = 0 THEN [nodes |-> h, list |-> <<>>]
    ELSE Bind(Products(h, weights, items, j - 1), LAMBDA before :
         Bind(Tensor_mul(before.nodes, weights[j], items[j]), LAMBDA res :
              [nodes |-> res.nodes, list |-> Append(before.list, Len(res.nodes))]))

RECURSIVE sum(_, _)
\* sum(list) of a list of Tensors: ((0 + list[0]) + list[1]) + ...
sum(h, list) ==
    IF list = <<>> THEN [nodes |-> h, out |-> Raw(Num(0))]
    ELSE LET k == Len(list)
         IN  Bind(sum(h, SubSeq(list, 1, k - 1)), LAMBDA before :
             Bind(add(before.nodes, before.out, Node(list[k])), LAMBDA res :
                  [nodes |-> res.nodes, out |-> Node(Len(res.nodes))]))

\* Neuron.forward(self, x); zip raises TypeError for an x that is a Tensor
Neuron_forward(h, self, x0) ==
    IF x0.k # "list" THEN [nodes |-> h, err |-> "TypeError", out |-> 0]
    ELSE Bind(Products(h, self.weights, x0.items,
                       Min(Len(self.weights), Len(x0.items))), LAMBDA ps :
         Bind(sum(ps.nodes, ps.list), LAMBDA s :
         Bind(add(s.nodes, s.out, Node(self.bias)).nodes, LAMBDA res :
              [nodes |-> [res EXCEPT ![Len(res)].value = Logistic(@)],
               err |-> "", out |-> Len(res)])))

RECURSIVE Outputs(_, _, _, _)
\* [neuron(x) for neuron in self.neurons], its first j elements
Outputs(h, neurons, x0, j) ==
    IF j = 0 THEN [nodes |-> h, err |-> "", list |-> <<>>]
    ELSE Bind(Outputs(h, neurons, x0, j - 1), LAMBDA before :
             IF before.err # "" THEN before
             ELSE Bind(Neuron_forward(before.nodes, neurons[j], x0), LAMBDA res :
                       [nodes |-> res.nodes, err |-> res.err,
                        list |-> Append(before.list, Node(res.out))]))

\* Layer.forward(self, x): out[0] if len(out) == 1 else out
Layer_forward(h, self, x0) ==
    Bind(Outputs(h, self, x0, Len(self)), LAMBDA res :
         IF res.err # "" THEN [nodes |-> h, err |-> res.err, out |-> x0]
         ELSE [nodes |-> res.nodes, err |-> "",
               out |-> IF Len(res.list) = 1 THEN Single(res.list[1].id)
                       ELSE List(res.list)])

RECURSIVE MLP_forward(_, _, _)
\* MLP.forward(self, x): for layer in self.layers: x = layer(x)
MLP_forward(h, self, x0) ==
    IF self = <<>> THEN [nodes |-> h, err |-> "", out |-> x0]
    ELSE Bind(Layer_forward(h, Head(self), x0), LAMBDA res :
              IF res.err # "" THEN res ELSE MLP_forward(res.nodes, Tail(self), res.out))

\* Neuron.parameters, Layer.parameters, MLP.parameters
Neuron_parameters(self) == Append(self.weights, self.bias)

RECURSIVE Layer_parameters(_)
Layer_parameters(self) ==
    IF self = <<>> THEN <<>>
    ELSE Neuron_parameters(Head(self)) \o Layer_parameters(Tail(self))

RECURSIVE MLP_parameters(_)
MLP_parameters(self) ==
    IF self = <<>> THEN <<>>
    ELSE Layer_parameters(Head(self)) \o MLP_parameters(Tail(self))

----------------------------------------------------------------------------
(* criterion, Optimizer, the training loop *)

\* the epochs the loop makes in the model (the notebook sets n_epochs = 20)
n_epochs == 2

lr == Rat(1, 100)

RECURSIVE SquaredErrors(_, _, _, _)
\* [(y_hat - Y)**2 for y_hat, Y in zip(y_hat, Y)], its first j elements; a
\* y_hat that is a list has no __sub__
SquaredErrors(h, y_hat, targets, j) ==
    IF j = 0 THEN [nodes |-> h, err |-> "", list |-> <<>>]
    ELSE Bind(SquaredErrors(h, y_hat, targets, j - 1), LAMBDA before :
             IF before.err # "" THEN before
             ELSE IF y_hat[j].k # "tensor"
                  THEN [nodes |-> h, err |-> "TypeError", list |-> <<>>]
             ELSE Bind(Tensor_sub(before.nodes, y_hat[j].id, Raw(targets[j])), LAMBDA diff :
                  Bind(Tensor_pow(diff.nodes, Len(diff.nodes), Raw(Num(2))), LAMBDA res :
                       [nodes |-> res.nodes, err |-> res.err,
                        list |-> Append(before.list, Len(res.nodes))])))

\* criterion(y_hat, Y)
criterion(h, y_hat, targets) ==
    Bind(SquaredErrors(h, y_hat, targets, Min(Len(y_hat), Len(targets))), LAMBDA sq :
         IF sq.err # "" THEN [nodes |-> h, err |-> sq.err, out |-> 0]
         ELSE Bind(sum(sq.nodes, sq.list), LAMBDA s :
              Bind(divide(s.nodes, s.out, Raw(Num(Len(targets)))), LAMBDA res :
                   [nodes |-> res.nodes, err |-> res.err, out |-> Len(res.nodes)])))

\* a zero_grad that resets nothing
keep_grad(h, parameters) == h

RECURSIVE Optimizer_zero_grad(_, _)
\* Optimizer.zero_grad: for parameter in self.parameters: parameter.grad = 0
Optimizer_zero_grad(h, parameters) ==
    IF parameters = <<>> THEN h
    ELSE Bind(SetGrad(h, Head(parameters), Num(0)),
              LAMBDA h1 : Optimizer_zero_grad(h1, Tail(parameters)))

RECURSIVE Optimizer_step(_, _)
\* Optimizer.step: for parameter in self.parameters: parameter.value += self.lr * parameter.grad
Optimizer_step(h, parameters) ==
    IF parameters = <<>> THEN h
    ELSE Bind([h EXCEPT ![Head(parameters)].value =
                            PyAdd(@, PyMul(lr, h[Head(parameters)].grad))],
              LAMBDA h1 : Optimizer_step(h1, Tail(parameters)))

RECURSIVE walk(_, _)
\* for v in order: v._backward(), up to the first that raises
walk(h, order) ==
    IF order = <<>> THEN Return(h)
    ELSE Bind(backward_fn(h, Head(order)), LAMBDA res :
              IF res.err # "" THEN res ELSE walk(res.nodes, Tail(order)))

\* Tensor.backward(self), the whole call
Tensor_backward(h, self, flips) ==
    Bind(build_topo(h, flips, self, [visited |-> {}, topo_sort |-> <<>>]).topo_sort,
         LAMBDA topo : Bind(SetGrad(h, self, Num(1)),
                            LAMBDA h1 : walk(h1, reversed(topo))))

RECURSIVE Predictions(_, _, _, _)
\* [model(x) for x in X], its first j elements
Predictions(h, model, examples, j) ==
    IF j = 0 THEN [nodes |-> h, err |-> "", list |-> <<>>]
    ELSE Bind(Predictions(h, model, examples, j - 1), LAMBDA before :
             IF before.err # "" THEN before
             ELSE Bind(MLP_forward(before.nodes, model, examples[j]), LAMBDA res :
                       [nodes |-> res.nodes, err |-> res.err,
                        list |-> Append(before.list, res.out)]))

\* the lists of layer sizes of up to n layers
LayerSizes(n) == UNION {[1..k -> 1..MaxWidth] : k \in 1..n}

\* the inputs for input_size features
Inputs(input_size) == {List([j \in 1..input_size |-> Raw(Num(f[j]))]) :
                          f \in [1..input_size -> InputValues]}

\* model = MLP(input_size, layer_sizes); X and Y
Built(input_size, layer_sizes, examples, targets) ==
    /\ \E model \in {MLP(<<>>, input_size, layer_sizes)} :
          /\ nodes = model.nodes
          /\ layers = model.layers
    /\ X = examples
    /\ Y = targets
    /\ err = ""
    /\ pc = "forward"
    /\ layer = 0
    /\ y_hats = <<>>
    /\ loss = 0
    /\ epoch = 0
    /\ log = <<>>
    /\ NoBackward

\* a network and one input to forward through it
InitForward ==
    \E input_size \in 1..MaxInputs, layer_sizes \in LayerSizes(MaxLayers) :
        \E x0 \in Inputs(input_size) :
            /\ Built(input_size, layer_sizes, <<x0>>, <<>>)
            /\ fwd_x = x0

\* one iteration of MLP.forward's loop: x = layer(x)
ForwardLayer ==
    /\ pc = "forward"
    /\ layer < Len(layers)
    /\ \E res \in {Layer_forward(nodes, layers[layer + 1], fwd_x)} :
           /\ nodes' = res.nodes
           /\ err' = res.err
           /\ fwd_x' = res.out
           /\ layer' = IF res.err # "" THEN layer ELSE layer + 1
           /\ pc' = IF res.err # "" THEN "raised"
                    ELSE IF layer + 1 = Len(layers) THEN "returned" ELSE "forward"
    /\ UNCHANGED <<engine, layers, X, Y, y_hats, loss, epoch, log>>

NextForward == ForwardLayer

SpecForward == InitForward /\ [][NextForward]_vars

\* a network, examples and targets to train it on
InitTrain ==
    \E input_size \in 1..MaxTrainInputs, layer_sizes \in LayerSizes(MaxTrainLayers),
       m \in 1..MaxExamples :
        \E examples \in [1..m -> Inputs(input_size)], targets \in [1..m -> Targets] :
            /\ Built(input_size, layer_sizes, examples, [j \in 1..m |-> Num(targets[j])])
            /\ fwd_x = List(<<>>)

\* a statement of the loop's body raised: the loop is left
Step(name, res, next) ==
    /\ pc = name
    /\ nodes' = res.nodes
    /\ err' = res.err
    /\ pc' = IF res.err # "" THEN "raised" ELSE next
    /\ log' = IF name = "forward" THEN <<name>> ELSE Append(log, name)
    /\ UNCHANGED <<engine, layers, X, Y, fwd_x, layer>>

\* y_hats = [model(x) for x in X]
Forward ==
    /\ epoch < n_epochs
    /\ \E res \in {Predictions(nodes, layers, X, Len(X))} :
           /\ Step("forward", res, "criterion")
           /\ y_hats' = res.list
    /\ UNCHANGED <<loss, epoch>>

\* loss = criterion(y_hats, Y)
Criterion ==
    /\ \E res \in {criterion(nodes, y_hats, Y)} :
           /\ Step("criterion", res, "zero_grad")
           /\ loss' = res.out
    /\ UNCHANGED <<y_hats, epoch>>

\* optim.zero_grad()
ZeroGrad ==
    /\ \E res \in {Return(Optimizer_zero_grad(nodes, MLP_parameters(layers)))} :
           Step("zero_grad", res, "backward")
    /\ UNCHANGED <<y_hats, loss, epoch>>

\* loss.backward()
Backward(flips) ==
    /\ \E res \in {Tensor_backward(nodes, loss, flips)} : Step("backward", res, "step")
    /\ UNCHANGED <<y_hats, loss, epoch>>

\* optim.step(), and the next i of range(n_epochs)
OptimStep ==
    /\ \E res \in {Return(Optimizer_step(nodes, MLP_parameters(layers)))} :
           Step("step", res, "forward")
    /\ epoch' = epoch + 1
    /\ UNCHANGED <<y_hats, loss>>

NextTrain ==
    \/ Forward
    \/ Criterion
    \/ ZeroGrad
    \/ pc = "backward" /\ \E flips \in Flips(loss) : Backward(flips)
    \/ OptimStep

SpecTrain == InitTrain /\ [][NextTrain]_vars

----------------------------------------------------------------------------
(* What the claims speak of *)

\* the nodes of R that have n as an operand
Consumers(h, R, n) == {c \in R : n \in h[c].children}

\* how often x occurs in the sequence s
Count(s, x) == Cardinality({k \in 1..Len(s) : s[k] = x})

\* a backward() call has ended (returned, or raised in a _backward)
Ended == pc = "idle" /\ calls > 0

\* the derivative of c.value with respect to its operand n.value, by the rule of c's operation
Local(h, c, n) ==
    LET self == h[c].self
        other == h[c].other
        when(cond, x) == IF cond THEN x ELSE Num(0)
    IN  CASE h[c].operator = "+" ->
               PyAdd(when(self = n, Num(1)), when(other = n, Num(1)))
          [] h[c].operator = "*" ->
               PyAdd(when(self = n, h[other].value), when(other = n, h[self].value))
          [] h[c].operator = "/" ->
               PyAdd(when(self = n, PyDiv(Num(1), h[other].value)),
                     when(other = n, PyDiv(PyNeg(h[self].value),
                                           PyMul(h[other].value, h[other].value))))
          [] h[c].operator = "pow" ->
               PyMul(h[c].exponent, PyPow(h[n].value, PyAdd(h[c].exponent, Num(-1))))
          [] OTHER -> Num(0)

RECURSIVE Partial(_, _, _)
RECURSIVE PartialSum(_, _, _, _)

\* the partial derivative of r.value with respect to n.value: the sum over the operand
\* paths from r to n of the product of the local derivatives
Partial(h, r, n) ==
    IF n = r THEN Num(1) ELSE PartialSum(h, r, n, Consumers(h, Reach(h, r), n))

PartialSum(h, r, n, C) ==
    IF C = {} THEN Num(0)
    ELSE LET c == CHOOSE x \in C : TRUE
         IN  PyAdd(PyMul(Partial(h, r, c), Local(h, c, n)), PartialSum(h, r, n, C \ {c}))

RECURSIVE Contributions(_, _, _)
\* the sum of what the consumers C of n push onto n.grad: local derivative times c.grad
Contributions(h, C, n) ==
    IF C = {} THEN Num(0)
    ELSE LET c == CHOOSE x \in C : TRUE
         IN  PyAdd(PyMul(Local(h, c, n), h[c].grad), Contributions(h, C \ {c}, n))

----------------------------------------------------------------------------
(* C1 *)

\* C1: during a backward() call every node's _backward is invoked strictly after
\* the _backward of every reachable node that has it as an operand, whatever the
\* shape of the graph and the iteration order of the children sets.
BackwardAfterConsumers ==
    \A j \in 1..Len(invoked) :
        \A c \in Consumers(nodes, Reach(nodes, root), invoked[j]) :
            \E k \in 1..(j - 1) : invoked[k] = c

\* a call has walked a diamond: a node with two consumers that are both operands of the root
C1Witness ==
    /\ Ended /\ err = ""
    /\ \E n \in Ids(nodes) : \E c1 \in Ids(nodes) : \E c2 \in Ids(nodes) :
          /\ c1 # c2 /\ c1 # root /\ c2 # root
          /\ n \in nodes[c1].children /\ n \in nodes[c2].children
          /\ nodes[root].children = {c1, c2}
          /\ Count(invoked, n) = 1

----------------------------------------------------------------------------
(* C2 *)

\* out = a * b + c with a = 2, b = -3, c = 10
IsExample(out) ==
    /\ nodes[out].operator = "+"
    /\ nodes[nodes[out].self].operator = "*"
    /\ nodes[nodes[nodes[out].self].self].value = Num(2)
    /\ nodes[nodes[nodes[out].self].other].value = Num(-3)
    /\ nodes[nodes[out].other].value = Num(10)

\* C2: after backward(root) on an expression of + and * whose grads were all 0,
\* the grad of every reachable node is the partial derivative of root.value with
\* respect to it (the sum over the operand paths of the products of the local
\* derivatives); a * b + c with a = 2, b = -3, c = 10 has value 4 and leaves
\* a.grad = -3, b.grad = 2, c.grad = 1.
GradIsPartialDerivative ==
    (Ended /\ Len(hist) = 1) =>
        /\ \A n \in Reach(nodes, root) : nodes[n].grad = Partial(nodes, root, n)
        /\ IsExample(root) =>
              LET m == nodes[root].self
              IN  /\ nodes[root].value = Num(4)
                  /\ nodes[nodes[m].self].grad = Num(-3)
                  /\ nodes[nodes[m].other].grad = Num(2)
                  /\ nodes[nodes[root].other].grad = Num(1)

\* backward() has returned on a * b + c with a = 2, b = -3, c = 10
C2Witness == Ended /\ Len(hist) = 1 /\ IsExample(root)

----------------------------------------------------------------------------
(* C3 *)

\* C3 as stated: two backward() calls in a row on the same root leave every
\* reachable node's grad at twice its value after one call.
TwiceIsDouble ==
    Len(hist) >= 2 =>
        \A n \in Reach(nodes, root) : hist[2][n] = PyMul(Num(2), hist[1][n])

\* n receives grad from the root alone, and the root accumulates onto its operands
OnlyBelowRoot(n) ==
    /\ n # root
    /\ Consumers(nodes, Reach(nodes, root), n) = {root}
    /\ nodes[root].operator \in {"+", "*", "/"}

\* C3 (amended): after k backward() calls in a row on the same root, started from
\* grads 0, the root's grad is 1 and the grad of a node whose only consumer is the
\* root, an add, multiply or divide node, is k times its value after one call.
RepeatedCallAccumulates ==
    \A k \in 1..Len(hist) :
        /\ hist[k][root] = Num(1)
        /\ \A n \in Reach(nodes, root) :
              OnlyBelowRoot(n) => hist[k][n] = PyMul(Num(k), hist[1][n])

\* two calls have ended on a root with an operand of non-zero grad that only the root consumes
C3Witness ==
    /\ Ended /\ Len(hist) = 2
    /\ \E n \in Reach(nodes, root) :
          OnlyBelowRoot(n) /\ ~IsZero(hist[1][n]) /\ ~IsComplex(hist[1][n])

----------------------------------------------------------------------------
(* C4 *)

\* C4 as stated: after backward(root) from grads 0, a leaf that is the base of a
\* power node and has a second consumer holds the sum of all its consumers'
\* contributions.
PowerBaseAccumulates ==
    (Ended /\ Len(hist) = 1 /\ err = "") =>
        \A a \in Reach(nodes, root) :
            LET C == Consumers(nodes, Reach(nodes, root), a)
            IN  (/\ nodes[a].children = {}
                 /\ Cardinality(C) >= 2
                 /\ \E c \in C : nodes[c].operator = "pow")
                => nodes[a].grad = Contributions(nodes, C, a)

----------------------------------------------------------------------------
(* C8 *)

\* C8 as stated: in a backward() call topo_sort holds exactly the nodes reachable
\* from the root, each once, and the _backward of each of them is invoked exactly once.
EachBackwardOnce ==
    Ended =>
        /\ \A n \in Ids(nodes) :
              Count(topo_sort, n) = IF n \in Reach(nodes, root) THEN 1 ELSE 0
        /\ \A n \in Reach(nodes, root) : Count(invoked, n) = 1

----------------------------------------------------------------------------
(* C5, C6, C7: single operations *)

\* the call c, made on the objects h, is a Tensor divided by something of value 0
ZeroDivisor(h, c) == c.op = "divide" /\ IsTensor(c.a) /\ IsZero(ValueOf(h, c.b))

PowerRejectsInvalidDomain ==
    /\ (/\ call.op = "power"
        /\ IsNegative(ValueOf(nodes, call.a))
        /\ ~IsIntegral(call.b.v)) => err # ""
    /\ \A n \in Ids(nodes) : ~IsComplex(nodes[n].value)

\* C7 as stated: but for a division by zero, a + b, a - b, a * b and a / b succeed
\* for every mix of Tensors and raw scalars.
OperationsTotal ==
    (call.op \in {"add", "subtract", "multiply", "divide"} /\ ~IsZero(ValueOf(nodes, call.b)))
        => err = ""

----------------------------------------------------------------------------
(* C9 *)

\* C9 as stated: forward succeeds on every network of positive sizes: no layer
\* raises, and what a layer after the first receives is the sequence of the
\* outputs of the layer before it, one Node per neuron.
ForwardSucceeds ==
    /\ pc # "raised"
    /\ (layer > 0 /\ layer < Len(layers)) =>
          /\ fwd_x.k = "list"
          /\ Len(fwd_x.items) = Len(layers[layer])

----------------------------------------------------------------------------
(* C10 *)

Parameters == {MLP_parameters(layers)[k] : k \in 1..Len(MLP_parameters(layers))}

IsPrefix(s, t) == Len(s) <= Len(t) /\ \A k \in 1..Len(s) : s[k] = t[k]

\* the steps of an epoch run in the order forward, criterion, zero_grad, backward, step
LoopOrder == IsPrefix(log, <<"forward", "criterion", "zero_grad", "backward", "step">>)

\* when step() is about to run, a parameter's grad is what the consumers it has in
\* this epoch's graph, the nodes reachable from loss, pushed onto it
GradsOfThisEpoch ==
    pc = "step" =>
        \A n \in Parameters :
            nodes[n].grad = Contributions(nodes, Consumers(nodes, Reach(nodes, loss), n), n)

\* step() makes no node, leaves every grad and every node that is not a
\* parameter as they were, and adds lr * grad to the value of each parameter
StepChangesValues ==
    (pc = "step" /\ pc' # "step") =>
        /\ Len(nodes') = Len(nodes)
        /\ \A n \in Ids(nodes) :
              /\ nodes'[n].grad = nodes[n].grad
              /\ n \notin Parameters => nodes'[n] = nodes[n]
              /\ n \in Parameters =>
                    nodes'[n].value = PyAdd(nodes[n].value, PyMul(lr, nodes[n].grad))

\* C10: in every epoch the steps run in the order forward passes, criterion,
\* zero_grad, backward, step; when step() is about to run every parameter's grad
\* is the sum of the contributions of this epoch's backward() alone; and step()
\* changes only the values of the parameters, by lr * grad.
EpochsAreIndependent ==
    /\ [](LoopOrder /\ GradsOfThisEpoch)
    /\ [][StepChangesValues]_vars

\* step() is about to run in the second epoch, on a parameter whose grad is not 0
C10Witness ==
    /\ pc = "step" /\ epoch = 1
    /\ log = <<"forward", "criterion", "zero_grad", "backward">>
    /\ \E n \in Parameters : ~IsZero(nodes[n].grad)

====
